---- MODULE Spec2Model ----
(***************************************************************************)
(* Model of app/main.py: the cluster registry, the connection resolver and *)
(* the generic document operations of the FastAPI gateway.                 *)
(*                                                                         *)
(* Every request handler is a coroutine; it can be suspended at each       *)
(* `await` of a backend call and nowhere else.  One action of the model is *)
(* one backend call together with the synchronous code that follows it up  *)
(* to the next await (or to the response).                                 *)
(***************************************************************************)
EXTENDS Integers, Sequences, FiniteSets, TLC

VARIABLES
    store,      \* the documents of every collection of every backend, in natural order
    nextOid,    \* the ObjectIds generated so far, plus one
    req,        \* the handler running in each request slot, with its locals
    accepted    \* history: the (name, uri) pairs register_cluster has accepted

vars == <<store, nextOid, req, accepted>>

(* ------------------------------ bounds --------------------------------- *)

\* number of ObjectIds the backends may generate in one behaviour
MaxOid == 2

\* longest list a bulk request carries
MaxBatch == 2
\* rows of the longest table an import loads (its rows carry an _id column)
MaxRows == 4

(* ------------------------------ values --------------------------------- *)

\* a JSON string
StrV(s) == [t |-> "str", v |-> s]

\* the 24-hex-digit text of the n-th generated ObjectId (abbreviated)
HexOf(n) == "oid" \o ToString(n)

\* bson.ObjectId generated by the driver for the n-th insert
OidV(n) == [t |-> "oid", v |-> HexOf(n)]

\* every text that ObjectId(...) accepts in this model
HexTexts == {HexOf(n) : n \in 1..(MaxOid + 1)}

\* Python's None
None == [none |-> TRUE]

\* str(x) for a stored identifier: an ObjectId gives its hex text, a string itself
str(x) == StrV(x.v)

\* bson.ObjectId(text): the text must be 24 hex digits, else InvalidId is raised
ValidObjectId(text) == text \in HexTexts

ObjectId(text) == [t |-> "oid", v |-> text]

\* a document is a function from a finite set of keys to values; {} is
EmptyDoc == [k \in {} |-> StrV("")]

(* ---------------------------- configuration ---------------------------- *)

\* os.getenv("MONGO_URL"): the connection string of the default backend
MONGO_URI == "mongo0"

\* the process-wide client
default_client == [kind |-> "default", uri |-> MONGO_URI]

\* AsyncIOMotorClient(uri): a fresh client for the backend at uri
AsyncIOMotorClient(uri) == [kind |-> "new", uri |-> uri]

NoClient == [kind |-> "none", uri |-> ""]

\* client[db][collection]
get_collection(client, db, collection) == <<client.uri, db, collection>>

\* default_client["railway_db"]["cluster_connections"]
cluster_lookup_collection == get_collection(default_client, "railway_db", "cluster_connections")

(* ------------------------------ serialize ------------------------------ *)

serialize(item) ==
    [k \in (DOMAIN item \ {"_id"}) \cup {"id"} |->
        IF k = "id" THEN str(item["_id"]) ELSE item[k]]

(* ------------------- the document store (pymongo) ---------------------- *)

Range(f) == {f[i] : i \in DOMAIN f}

Min(a, b) == IF a <= b THEN a ELSE b

\* filter {key: val}
Matches(d, key, val) == key \in DOMAIN d /\ d[key] = val

\* collection.find_one({key: val}): the first match in natural order, or None
find_one(docs, key, val) ==
    IF \E i \in 1..Len(docs) : Matches(docs[i], key, val)
    THEN docs[CHOOSE i \in 1..Len(docs) :
                 /\ Matches(docs[i], key, val)
                 /\ \A j \in 1..(i - 1) : ~Matches(docs[j], key, val)]
    ELSE None

\* collection.find().to_list(n)
find_to_list(docs, n) == SubSeq(docs, 1, Min(n, Len(docs)))

\* collection.find({"_id": {"$in": ids}}).to_list(n)
find_in_to_list(docs, ids, n) ==
    find_to_list(SelectSeq(docs, LAMBDA d : d["_id"] \in Range(ids)), n)

HasId(docs, id) == \E i \in 1..Len(docs) : docs[i]["_id"] = id

\* the document as stored: the driver adds an ObjectId when the document has no _id
WithId(item, oid) ==
    IF "_id" \in DOMAIN item THEN item
    ELSE [k \in DOMAIN item \cup {"_id"} |-> IF k = "_id" THEN OidV(oid) ELSE item[k]]

NeedsOid(item) == IF "_id" \in DOMAIN item THEN 0 ELSE 1

\* collection.insert_many(items), ordered: the documents are written in order and
\* the first duplicate key stops the batch with BulkWriteError
RECURSIVE InsertMany(_, _, _, _)
InsertMany(docs, items, oid, ids) ==
    IF items = <<>> THEN [docs |-> docs, ids |-> ids, oid |-> oid, err |-> FALSE]
    ELSE LET d == WithId(Head(items), oid)
         IN  IF HasId(docs, d["_id"])
             THEN [docs |-> docs, ids |-> ids, oid |-> oid + NeedsOid(Head(items)), err |-> TRUE]
             ELSE InsertMany(Append(docs, d), Tail(items),
                             oid + NeedsOid(Head(items)), Append(ids, d["_id"]))

RECURSIVE OidsNeeded(_)
OidsNeeded(items) ==
    IF items = <<>> THEN 0 ELSE NeedsOid(Head(items)) + OidsNeeded(Tail(items))

\* a replacement of the document by the update, in the place of $set
Set_Replace(d, update) ==
    [k \in DOMAIN update \cup {"_id"} |-> IF k = "_id" THEN d["_id"] ELSE update[k]]

\* {"$set": update} applied to one document
Set(d, update) ==
    [k \in DOMAIN d \cup DOMAIN update |-> IF k \in DOMAIN update THEN update[k] ELSE d[k]]

\* index of the first document with this _id, 0 when there is none
IndexOfId(docs, id) ==
    IF HasId(docs, id)
    THEN CHOOSE i \in 1..Len(docs) :
             /\ docs[i]["_id"] = id
             /\ \A j \in 1..(i - 1) : docs[j]["_id"] # id
    ELSE 0

\* collection.update_one({"_id": id}, {"$set": update}): the new contents
update_one(docs, id, update) ==
    LET i == IndexOfId(docs, id)
    IN  IF i = 0 THEN docs ELSE [docs EXCEPT ![i] = Set(docs[i], update)]

\* result.matched_count in the place of modified_count
modified_count_Matched(docs, id, update) == IF HasId(docs, id) THEN 1 ELSE 0

\* result.modified_count: a matched document whose values did not change counts 0
modified_count(docs, id, update) ==
    IF update_one(docs, id, update) = docs THEN 0 ELSE 1

\* collection.delete_one({"_id": id}): the new contents
delete_one(docs, id) ==
    LET i == IndexOfId(docs, id)
    IN  IF i = 0 THEN docs
        ELSE [j \in 1..(Len(docs) - 1) |-> IF j < i THEN docs[j] ELSE docs[j + 1]]

\* result.deleted_count
deleted_count(docs, id) == IF HasId(docs, id) THEN 1 ELSE 0

(* --------------------------- request inputs ---------------------------- *)

\* requests in flight at once
Slots == {1, 2}

\* cluster selectors a request may carry: absent/empty, the sentinel, a name, a raw URI
Selectors(wide) == IF wide THEN {"", "default", "west", "uriW"} ELSE {"default", "west"}

\* names and connection strings offered to /clusters/register
ClusterNames == {"west", "default"}

Uris == {MONGO_URI, "uriW"}

\* (db, collection) pairs addressed by the requests; <<"test", "items">> are the
\* Query defaults
Targets == {<<"railway_db", "cluster_connections">>, <<"test", "items">>}

Handles == {<<u, t[1], t[2]>> : u \in Uris, t \in Targets}

\* (cluster, db, collection) of a request: the registry's own collection through
\* the default client, and the default collection through every selector
Addresses(wide) ==
    IF wide
    THEN {<<c, "test", "items">> : c \in Selectors(wide) \ {"default"}}
            \cup {<<"default", "railway_db", "cluster_connections">>}
    ELSE {<<c, "test", "items">> : c \in Selectors(wide)}

\* request bodies for POST /items
InputDocs(wide) ==
    IF wide
    THEN { [name |-> StrV("a")],
           [id |-> StrV("x"), name |-> StrV("a")],
           [cluster |-> StrV("west"), uri |-> StrV("uriW")],
           [_id |-> StrV("k"), name |-> StrV("a")] }
    ELSE { [name |-> StrV("a")] }

\* the (body, address) pairs explored: a registry-shaped document goes to the
\* registry's collection, a document that brings its own _id to the default one
Explored(doc, a) ==
    /\ "_id" \in DOMAIN doc => a = <<"", "test", "items">>
    /\ "cluster" \in DOMAIN doc => a[3] = "cluster_connections"

\* request bodies for POST /items/bulk: lists of up to MaxBatch documents
BatchDocs(wide) ==
    IF wide THEN {[name |-> StrV("a")], [_id |-> StrV("k"), name |-> StrV("a")]}
    ELSE {[name |-> StrV("a")]}

Batches(wide) == UNION {[1..n -> BatchDocs(wide)] : n \in 0..MaxBatch}

\* path parameter item_id: the text of a generated ObjectId, or some other text
\* ("k" is the _id a request body may bring)
ItemIds(wide) == IF wide THEN {HexOf(n) : n \in 1..MaxOid} \cup {"zz", "k"} ELSE {HexOf(1)}

\* request bodies for PUT /items/{item_id}
Patches(wide) == IF wide THEN {EmptyDoc, [name |-> StrV("b")]} ELSE {[name |-> StrV("b")]}

\* links, as sequences of characters
Links(wide) ==
    IF wide THEN { <<"a", ".", "c", "s", "v">>, <<"a", ".", "x", "l", "s", "x">>,
                   <<"a", ".", "t", "x", "t">> }
    ELSE { <<"a", ".", "c", "s", "v">> }

\* a missing cell of a loaded table
NaN == [t |-> "nan", v |-> ""]

\* tables the external location may hold, as DataFrame records
Datasets ==
    { <<>>, <<[name |-> StrV("r")]>>, <<[name |-> StrV("r")], [name |-> NaN]>>,
      [i \in 1..MaxRows |-> [_id |-> StrV(ToString(i)), name |-> StrV("r")]] }

\* what pd.read_csv / pd.read_excel may do: return a table, or raise
LoadOutcomes == {[ok |-> TRUE, rows |-> d] : d \in Datasets} \cup {[ok |-> FALSE, rows |-> <<>>]}

\* the reads explored for a link on one collection: the longest table is loaded
\* into the default collection of the second backend only
Loads(h) ==
    {l \in LoadOutcomes :
        Len(l.rows) = MaxRows => h = get_collection(AsyncIOMotorClient("uriW"), "test", "items")}

(* ------------------------------ requests ------------------------------- *)

Idle ==
    [pc |-> "idle", op |-> "", cluster |-> "", db |-> "", collection |-> "",
     item |-> EmptyDoc, items |-> <<>>, item_id |-> "", link |-> <<>>,
     clustername |-> "", mongouri |-> "", existing_name |-> None,
     client |-> NoClient, ids |-> <<>>, loaded |-> FALSE,
     status |-> 0, detail |-> "", body |-> <<>>, calls |-> {}, made |-> {}]

\* a request slot is free when no handler runs in it
Free(s) == req[s].pc = "idle"

\* the response: raise HTTPException(status, detail) or return body
Respond(r, status, detail, body) ==
    [r EXCEPT !.pc = "done", !.status = status, !.detail = detail, !.body = body]

Called(r, call) == [r EXCEPT !.calls = @ \cup {call}]

col(r) == get_collection(r.client, r.db, r.collection)

Init ==
    /\ store = [h \in Handles |-> <<>>]
    /\ nextOid = 1
    /\ req = [s \in Slots |-> Idle]
    /\ accepted = {}

\* the response is sent and the handler's coroutine ends
respond(s) ==
    /\ req[s].pc = "done"
    /\ req' = [req EXCEPT ![s] = Idle]
    /\ UNCHANGED <<store, nextOid, accepted>>

(* ------------------------- register_cluster ---------------------------- *)

\* POST /clusters/register arrives; the handler runs to its first await
register_cluster_call(s, wide) ==
    /\ Free(s)
    /\ \E n \in ClusterNames, u \in Uris :
          req' = [req EXCEPT ![s] =
                    [Idle EXCEPT !.op = "register_cluster", !.clustername = n,
                                 !.mongouri = u, !.pc = "find_name"]]
    /\ UNCHANGED <<store, nextOid, accepted>>

\* existing_name = await cluster_lookup_collection.find_one({"cluster": clustername})
register_cluster_find_name(s) ==
    /\ req[s].pc = "find_name"
    /\ req' = [req EXCEPT ![s] =
                 [Called(@, "registry.find_one") EXCEPT
                    !.existing_name = find_one(store[cluster_lookup_collection],
                                               "cluster", StrV(req[s].clustername)),
                    !.pc = "find_uri"]]
    /\ UNCHANGED <<store, nextOid, accepted>>

\* the checks with the URI check left out
RegisterChecks_NameOnly(r, existing_name, existing_uri) ==
    IF existing_name # None THEN Respond(r, 400, "DuplicateName", <<>>)
    ELSE [r EXCEPT !.pc = "reg_insert"]

\* the two checks that follow the second find_one
RegisterChecks(r, existing_name, existing_uri) ==
    IF existing_name # None THEN Respond(r, 400, "DuplicateName", <<>>)
    ELSE IF existing_uri # None THEN Respond(r, 400, "DuplicateURI", <<>>)
    ELSE [r EXCEPT !.pc = "reg_insert"]

\* existing_uri = await cluster_lookup_collection.find_one({"uri": mongouri}),
\* then the checks
register_cluster_find_uri(s) ==
    /\ req[s].pc = "find_uri"
    /\ req' = [req EXCEPT ![s] =
                 RegisterChecks(Called(@, "registry.find_one"), @.existing_name,
                                find_one(store[cluster_lookup_collection],
                                         "uri", StrV(@.mongouri)))]
    /\ UNCHANGED <<store, nextOid, accepted>>

\* await cluster_lookup_collection.insert_one({"cluster": clustername, "uri": mongouri})
register_cluster_insert(s) ==
    /\ req[s].pc = "reg_insert"
    /\ nextOid <= MaxOid
    /\ store' = [store EXCEPT ![cluster_lookup_collection] =
                    Append(@, WithId([cluster |-> StrV(req[s].clustername),
                                      uri |-> StrV(req[s].mongouri)], nextOid))]
    /\ nextOid' = nextOid + 1
    /\ req' = [req EXCEPT ![s] =
                 Respond(Called(@, "registry.insert_one"), 200, "registered", <<>>)]
    /\ accepted' = accepted \cup {<<req[s].clustername, req[s].mongouri>>}

(* ----------------------- get_client_from_cluster ----------------------- *)

\* the guard with `not cluster` left out
IsDefault_SentinelOnly(cluster) == cluster = "default"

\* `if not cluster or cluster == "default": return default_client`
IsDefault(cluster) == cluster = "" \/ cluster = "default"

\* the code between the resolver's return and the handler's first backend call
AfterClient(r) ==
    CASE r.op = "create_item" -> [r EXCEPT !.pc = "insert_one"]
      [] r.op = "get_items" -> [r EXCEPT !.pc = "find_all"]
      [] r.op = "insert_many_items" -> [r EXCEPT !.pc = "insert_many"]
      [] r.op = "drop_and_import" -> [r EXCEPT !.pc = "drop"]
      [] r.op = "update_item" ->
            IF ValidObjectId(r.item_id) THEN [r EXCEPT !.pc = "update_one"]
            ELSE Respond(r, 500, "InvalidId", <<>>)
      [] r.op = "delete_item" ->
            IF ValidObjectId(r.item_id) THEN [r EXCEPT !.pc = "delete_one"]
            ELSE Respond(r, 500, "InvalidId", <<>>)

\* the resolver handing out the default client for every selector, no lookup
Resolve_SkipLookup(r) == AfterClient([r EXCEPT !.client = default_client])

\* a handler's first line, `client = await get_client_from_cluster(cluster)`, up
\* to the first await
Resolve(r) ==
    IF IsDefault(r.cluster)
    THEN AfterClient([r EXCEPT !.client = default_client])
    ELSE [r EXCEPT !.pc = "lookup"]

\* the resolver falling back to the default client when the lookup misses
ClientFor_FallBack(r, cluster_doc) ==
    IF cluster_doc = None THEN AfterClient([r EXCEPT !.client = default_client])
    ELSE IF "uri" \notin DOMAIN cluster_doc THEN Respond(r, 500, "KeyError", <<>>)
    ELSE AfterClient([r EXCEPT !.client = AsyncIOMotorClient(cluster_doc["uri"].v),
                               !.made = @ \cup {cluster_doc["uri"].v}])

\* what the resolver does with the result of its find_one
ClientFor(r, cluster_doc) ==
    IF cluster_doc = None THEN Respond(r, 404, "ClusterNotFound", <<>>)
    ELSE IF "uri" \notin DOMAIN cluster_doc THEN Respond(r, 500, "KeyError", <<>>)
    ELSE AfterClient([r EXCEPT !.client = AsyncIOMotorClient(cluster_doc["uri"].v),
                               !.made = @ \cup {cluster_doc["uri"].v}])

\* cluster_doc = await cluster_lookup_collection.find_one({"cluster": cluster})
get_client_from_cluster(s) ==
    /\ req[s].pc = "lookup"
    /\ req' = [req EXCEPT ![s] =
                 ClientFor(Called(@, "lookup"),
                           find_one(store[cluster_lookup_collection],
                                    "cluster", StrV(@.cluster)))]
    /\ UNCHANGED <<store, nextOid, accepted>>

(* ----------------------------- create_item ----------------------------- *)

\* POST /items arrives
create_item_call(s, wide) ==
    /\ Free(s)
    /\ \E item \in InputDocs(wide), a \in Addresses(wide) :
          /\ Explored(item, a)
          /\ req' = [req EXCEPT ![s] =
                    Resolve([Idle EXCEPT !.op = "create_item", !.item = item,
                                         !.cluster = a[1], !.db = a[2],
                                         !.collection = a[3]])]
    /\ UNCHANGED <<store, nextOid, accepted>>

\* result = await col.insert_one(item)
create_item_insert_one(s) ==
    /\ req[s].pc = "insert_one"
    /\ nextOid + NeedsOid(req[s].item) - 1 <= MaxOid
    /\ LET r == Called(req[s], "insert_one")
           d == WithId(r.item, nextOid)
       IN  IF HasId(store[col(r)], d["_id"])
           THEN /\ req' = [req EXCEPT ![s] = Respond(r, 500, "DuplicateKeyError", <<>>)]
                /\ UNCHANGED store
           ELSE /\ store' = [store EXCEPT ![col(r)] = Append(@, d)]
                /\ req' = [req EXCEPT ![s] =
                             [r EXCEPT !.ids = <<d["_id"]>>, !.pc = "find_new"]]
    /\ nextOid' = nextOid + NeedsOid(req[s].item)
    /\ UNCHANGED accepted

\* new_item = await col.find_one({"_id": result.inserted_id}); return serialize(new_item)
create_item_find_one(s) ==
    /\ req[s].pc = "find_new"
    /\ LET r == Called(req[s], "find_one")
           new_item == find_one(store[col(r)], "_id", r.ids[1])
       IN  req' = [req EXCEPT ![s] =
                     IF new_item = None THEN Respond(r, 500, "TypeError", <<>>)
                     ELSE Respond(r, 200, "", <<serialize(new_item)>>)]
    /\ UNCHANGED <<store, nextOid, accepted>>

(* ------------------------------ get_items ------------------------------ *)

SerializeAll(items) == [i \in 1..Len(items) |-> serialize(items[i])]

\* GET /items arrives
get_items_call(s, wide) ==
    /\ Free(s)
    /\ \E a \in Addresses(wide) :
          req' = [req EXCEPT ![s] =
                    Resolve([Idle EXCEPT !.op = "get_items", !.cluster = a[1],
                                         !.db = a[2], !.collection = a[3]])]
    /\ UNCHANGED <<store, nextOid, accepted>>

\* items = await col.find().to_list(100); return [serialize(item) for item in items]
get_items_find(s) ==
    /\ req[s].pc = "find_all"
    /\ LET r == Called(req[s], "find")
       IN  req' = [req EXCEPT ![s] =
                     Respond(r, 200, "", SerializeAll(find_to_list(store[col(r)], 100)))]
    /\ UNCHANGED <<store, nextOid, accepted>>

(* -------------------------- insert_many_items -------------------------- *)

\* the handler with the empty-list check left out
InsertManyStart_NoCheck(r) == Resolve(r)

\* `if not items: raise HTTPException(400, "No data to insert")`, then the resolver
InsertManyStart(r) ==
    IF r.items = <<>> THEN Respond(r, 400, "No data to insert", <<>>) ELSE Resolve(r)

\* POST /items/bulk arrives
insert_many_items_call(s, wide) ==
    /\ Free(s)
    /\ \E items \in Batches(wide), a \in Addresses(wide) :
          /\ \A i \in 1..Len(items) : Explored(items[i], a)
          /\ req' = [req EXCEPT ![s] =
                    InsertManyStart([Idle EXCEPT !.op = "insert_many_items",
                                                 !.items = items, !.cluster = a[1],
                                                 !.db = a[2], !.collection = a[3]])]
    /\ UNCHANGED <<store, nextOid, accepted>>

\* result = await col.insert_many(items)
insert_many_items_insert_many(s) ==
    /\ req[s].pc = "insert_many"
    /\ nextOid + OidsNeeded(req[s].items) - 1 <= MaxOid
    /\ LET r == Called(req[s], "insert_many")
           res == InsertMany(store[col(r)], r.items, nextOid, <<>>)
       IN  /\ store' = [store EXCEPT ![col(r)] = res.docs]
           /\ nextOid' = res.oid
           /\ req' = [req EXCEPT ![s] =
                        IF res.err THEN Respond(r, 500, "BulkWriteError", <<>>)
                        ELSE [r EXCEPT !.ids = res.ids, !.pc = "find_inserted"]]
    /\ UNCHANGED accepted

\* inserted = await col.find({"_id": {"$in": result.inserted_ids}}).to_list(len(...))
insert_many_items_find(s) ==
    /\ req[s].pc = "find_inserted"
    /\ LET r == Called(req[s], "find")
       IN  req' = [req EXCEPT ![s] =
                     Respond(r, 200, "",
                             SerializeAll(find_in_to_list(store[col(r)], r.ids, Len(r.ids))))]
    /\ UNCHANGED <<store, nextOid, accepted>>

(* --------------------------- drop_and_import --------------------------- *)

\* `pattern in link`
Contains(link, pattern) ==
    \E i \in 1..(Len(link) - Len(pattern) + 1) :
        SubSeq(link, i, i + Len(pattern) - 1) = pattern

\* df.fillna("") on one record
FillNa(row) == [k \in DOMAIN row |-> IF row[k] = NaN THEN StrV("") ELSE row[k]]

\* items = df.fillna("").to_dict(orient="records")
Records(r, rows) ==
    [r EXCEPT !.loaded = TRUE, !.items = [i \in 1..Len(rows) |-> FillNa(rows[i])]]

\* the load with the check for an empty table left out
LoadAndCheck_NoEmptyCheck(r, loaded) ==
    IF ~Contains(r.link, <<"c", "s", "v">>) /\ ~Contains(r.link, <<"x", "l", "s">>)
    THEN Respond(r, 400, "Failed to load file: Unsupported file type", <<>>)
    ELSE IF ~loaded.ok THEN Respond(r, 400, "Failed to load file", <<>>)
    ELSE [Records(r, loaded.rows) EXCEPT !.pc = "import_insert"]

\* the code between the drop and the insert_many: load the table by the link's
\* pattern (loaded is what the read did), fill the blanks, reject an empty table
LoadAndCheck(r, loaded) ==
    IF ~Contains(r.link, <<"c", "s", "v">>) /\ ~Contains(r.link, <<"x", "l", "s">>)
    THEN Respond(r, 400, "Failed to load file: Unsupported file type", <<>>)
    ELSE IF ~loaded.ok THEN Respond(r, 400, "Failed to load file", <<>>)
    ELSE IF loaded.rows = <<>>
         THEN Respond(Records(r, loaded.rows), 400, "No data to insert", <<>>)
    ELSE [Records(r, loaded.rows) EXCEPT !.pc = "import_insert"]

\* POST /items/reset-and-import arrives
drop_and_import_call(s, wide) ==
    /\ Free(s)
    /\ \E link \in Links(wide), a \in Addresses(wide) :
          req' = [req EXCEPT ![s] =
                    Resolve([Idle EXCEPT !.op = "drop_and_import", !.link = link,
                                         !.cluster = a[1], !.db = a[2],
                                         !.collection = a[3]])]
    /\ UNCHANGED <<store, nextOid, accepted>>

\* the step with the drop left out
drop_and_import_drop_NoDrop(s) ==
    /\ req[s].pc = "drop"
    /\ \E loaded \in Loads(col(req[s])) :
          req' = [req EXCEPT ![s] = LoadAndCheck(Called(req[s], "drop"), loaded)]
    /\ UNCHANGED <<store, nextOid, accepted>>

\* await col.drop(), then pd.read_csv / pd.read_excel (blocking, no await)
drop_and_import_drop(s) ==
    /\ req[s].pc = "drop"
    /\ LET r == Called(req[s], "drop")
       IN  /\ store' = [store EXCEPT ![col(r)] = <<>>]
           /\ \E loaded \in Loads(col(r)) :
                 req' = [req EXCEPT ![s] = LoadAndCheck(r, loaded)]
    /\ UNCHANGED <<nextOid, accepted>>

\* result = await col.insert_many(items)
drop_and_import_insert_many(s) ==
    /\ req[s].pc = "import_insert"
    /\ nextOid + OidsNeeded(req[s].items) - 1 <= MaxOid
    /\ LET r == Called(req[s], "insert_many")
           res == InsertMany(store[col(r)], r.items, nextOid, <<>>)
       IN  /\ store' = [store EXCEPT ![col(r)] = res.docs]
           /\ nextOid' = res.oid
           /\ req' = [req EXCEPT ![s] =
                        IF res.err THEN Respond(r, 500, "BulkWriteError", <<>>)
                        ELSE [r EXCEPT !.ids = res.ids, !.pc = "sample"]]
    /\ UNCHANGED accepted

\* sample = await col.find().to_list(3); inserted_count is len(result.inserted_ids)
drop_and_import_sample(s) ==
    /\ req[s].pc = "sample"
    /\ LET r == Called(req[s], "find")
       IN  req' = [req EXCEPT ![s] =
                     Respond(r, 200, "imported",
                             SerializeAll(find_to_list(store[col(r)], 3)))]
    /\ UNCHANGED <<store, nextOid, accepted>>

(* ----------------------------- update_item ----------------------------- *)

\* PUT /items/{item_id} arrives
update_item_call(s, wide) ==
    /\ Free(s)
    /\ \E id \in ItemIds(wide), update \in Patches(wide), a \in Addresses(wide) :
          req' = [req EXCEPT ![s] =
                    Resolve([Idle EXCEPT !.op = "update_item", !.item_id = id,
                                         !.item = update, !.cluster = a[1],
                                         !.db = a[2], !.collection = a[3]])]
    /\ UNCHANGED <<store, nextOid, accepted>>

\* `if result.modified_count == 0: raise HTTPException(404, "Item not found")`
UpdateCheck(r, modified) ==
    IF modified = 0 THEN Respond(r, 404, "Item not found", <<>>)
    ELSE [r EXCEPT !.pc = "find_updated"]

\* result = await col.update_one({"_id": ObjectId(item_id)}, {"$set": update});
\* an empty $set is a write error on servers before 5.0 and a no-op since
update_item_update_one(s) ==
    /\ req[s].pc = "update_one"
    /\ LET r == Called(req[s], "update_one")
           id == ObjectId(r.item_id)
       IN  \/ /\ DOMAIN r.item = {}
              /\ req' = [req EXCEPT ![s] = Respond(r, 500, "WriteError", <<>>)]
              /\ UNCHANGED store
           \/ /\ store' = [store EXCEPT ![col(r)] = update_one(@, id, r.item)]
              /\ req' = [req EXCEPT ![s] =
                           UpdateCheck(r, modified_count(store[col(r)], id, r.item))]
    /\ UNCHANGED <<nextOid, accepted>>

\* updated_item = await col.find_one({"_id": ObjectId(item_id)}); return serialize(...)
update_item_find_one(s) ==
    /\ req[s].pc = "find_updated"
    /\ LET r == Called(req[s], "find_one")
           updated_item == find_one(store[col(r)], "_id", ObjectId(r.item_id))
       IN  req' = [req EXCEPT ![s] =
                     IF updated_item = None THEN Respond(r, 500, "TypeError", <<>>)
                     ELSE Respond(r, 200, "", <<serialize(updated_item)>>)]
    /\ UNCHANGED <<store, nextOid, accepted>>

(* ----------------------------- delete_item ----------------------------- *)

\* DELETE /items/{item_id} arrives
delete_item_call(s, wide) ==
    /\ Free(s)
    /\ \E id \in ItemIds(wide), a \in Addresses(wide) :
          req' = [req EXCEPT ![s] =
                    Resolve([Idle EXCEPT !.op = "delete_item", !.item_id = id,
                                         !.cluster = a[1], !.db = a[2],
                                         !.collection = a[3]])]
    /\ UNCHANGED <<store, nextOid, accepted>>

\* `if result.deleted_count == 0: raise HTTPException(404, "Item not found")`
DeleteCheck(r, deleted) ==
    IF deleted = 0 THEN Respond(r, 404, "Item not found", <<>>)
    ELSE Respond(r, 200, "deleted", <<>>)

\* result = await col.delete_one({"_id": ObjectId(item_id)})
delete_item_delete_one(s) ==
    /\ req[s].pc = "delete_one"
    /\ LET r == Called(req[s], "delete_one")
           id == ObjectId(r.item_id)
       IN  /\ store' = [store EXCEPT ![col(r)] = delete_one(@, id)]
           /\ req' = [req EXCEPT ![s] = DeleteCheck(r, deleted_count(store[col(r)], id))]
    /\ UNCHANGED <<nextOid, accepted>>

(* --------------------------- specifications ---------------------------- *)

Step(s, wide) ==
    \/ register_cluster_call(s, wide)
    \/ register_cluster_find_name(s)
    \/ register_cluster_find_uri(s)
    \/ register_cluster_insert(s)
    \/ get_client_from_cluster(s)
    \/ create_item_call(s, wide)
    \/ create_item_insert_one(s)
    \/ create_item_find_one(s)
    \/ get_items_call(s, wide)
    \/ get_items_find(s)
    \/ insert_many_items_call(s, wide)
    \/ insert_many_items_insert_many(s)
    \/ insert_many_items_find(s)
    \/ drop_and_import_call(s, wide)
    \/ drop_and_import_drop(s)
    \/ drop_and_import_insert_many(s)
    \/ drop_and_import_sample(s)
    \/ update_item_call(s, wide)
    \/ update_item_update_one(s)
    \/ update_item_find_one(s)
    \/ delete_item_call(s, wide)
    \/ delete_item_delete_one(s)
    \/ respond(s)

\* requests are served concurrently: any handler may take its next step
Next == \E s \in Slots : Step(s, FALSE)

Spec == Init /\ [][Next]_vars

\* requests are served one after the other
NextSeq == Step(1, TRUE)

SpecSeq == Init /\ [][NextSeq]_vars

(* ------------------------------ properties ----------------------------- *)

\* the registry's documents
Registry == store[cluster_lookup_collection]

\* the registry entries with this cluster name, with this URI
EntriesNamed(docs, n) == {i \in 1..Len(docs) : Matches(docs[i], "cluster", StrV(n))}

EntriesWithUri(docs, u) == {i \in 1..Len(docs) : Matches(docs[i], "uri", StrV(u))}

\* the handlers that start with the resolver
Resolving ==
    {"create_item", "get_items", "insert_many_items", "drop_and_import",
     "update_item", "delete_item"}

\* C1: a register_cluster call for a name that a registry entry already has never
\* reaches its insert: it ends with 400 DuplicateName, and the registry then holds
\* exactly one entry with that name (calls run one after the other).
C1_DuplicateNameLeavesOneEntry ==
    \A s \in Slots :
        LET r == req[s] IN
        (/\ r.op = "register_cluster"
         /\ r.pc \in {"reg_insert", "done"}
         /\ r.status # 200
         /\ EntriesNamed(Registry, r.clustername) # {})
        => /\ r.pc = "done"
           /\ r.status = 400
           /\ r.detail = "DuplicateName"
           /\ Cardinality(EntriesNamed(Registry, r.clustername)) = 1

\* C1: the call is rejected as the claim says while the registry holds two entries
\* with its name
C1_RejectedWithTwoEntries ==
    \E s \in Slots :
        /\ req[s].op = "register_cluster"
        /\ req[s].pc = "done"
        /\ req[s].status = 400
        /\ req[s].detail = "DuplicateName"
        /\ Cardinality(EntriesNamed(Registry, req[s].clustername)) = 2

\* C2: a register_cluster call with a name no entry has and a URI some entry has
\* ends with 400 DuplicateURI, and none of its steps changes the registry or any
\* other collection (calls run one after the other).
C2_DuplicateUriRejectedUnchanged ==
    [][\A s \in Slots :
        LET r == req[s] IN
        /\ (r.op = "register_cluster" /\ r.pc = "find_name") => store' = store
        /\ (/\ r.op = "register_cluster"
            /\ r.pc = "find_uri"
            /\ EntriesNamed(Registry, r.clustername) = {}
            /\ EntriesWithUri(Registry, r.mongouri) # {})
           => /\ req'[s].pc = "done"
              /\ req'[s].status = 400
              /\ req'[s].detail = "DuplicateURI"
              /\ store' = store
              /\ accepted' = accepted]_vars

C2_Witness ==
    \E s \in Slots :
        /\ req[s].op = "register_cluster"
        /\ req[s].pc = "done"
        /\ req[s].status = 400
        /\ req[s].detail = "DuplicateURI"
        /\ EntriesNamed(Registry, req[s].clustername) = {}
        /\ EntriesWithUri(Registry, req[s].mongouri) # {}

\* C3: under any interleaving of register_cluster calls no two registry entries
\* have the same cluster name and no two have the same URI.
C3_RegistryUnique ==
    \A i, j \in 1..Len(Registry) :
        i # j => \A key \in {"cluster", "uri"} :
                     key \in DOMAIN Registry[i] => ~Matches(Registry[j], key, Registry[i][key])

\* C4: a name that register_cluster accepted resolves to the URI it was registered
\* with in every later state.
C4_RegistrationKept ==
    \A p \in accepted :
        LET cluster_doc == find_one(Registry, "cluster", StrV(p[1])) IN
        /\ cluster_doc # None
        /\ "uri" \in DOMAIN cluster_doc
        /\ cluster_doc["uri"] = StrV(p[2])

\* C5: a handler whose selector is "default" or empty holds the process-wide client,
\* has not read the registry for it and has created no connection, whatever the
\* registry contains.
C5_DefaultSelector ==
    \A s \in Slots :
        LET r == req[s] IN
        (/\ r.op \in Resolving
         /\ r.cluster \in {"", "default"}
         /\ ~(r.op = "insert_many_items" /\ r.items = <<>>))
        => /\ r.client = default_client
           /\ "lookup" \notin r.calls
           /\ r.made = {}
           /\ r.status # 404 \/ r.detail # "ClusterNotFound"

\* C5: a request with the selector "default" has been served through the default
\* client while the registry holds an entry named "default"
C5_Witness ==
    \E s \in Slots :
        /\ req[s].op \in Resolving
        /\ req[s].cluster = "default"
        /\ req[s].pc = "done"
        /\ req[s].status = 200
        /\ req[s].client = default_client
        /\ EntriesNamed(Registry, "default") # {}

\* C6: when the resolver's lookup finds no entry named by a non-default selector,
\* the handler ends there with 404 ClusterNotFound, having created no connection
\* and issued no other backend call, and no collection changes.
C6_UnknownClusterRejected ==
    [][\A s \in Slots :
        (/\ req[s].pc = "lookup"
         /\ req'[s] # req[s]
         /\ EntriesNamed(Registry, req[s].cluster) = {})
        => /\ req'[s].pc = "done"
           /\ req'[s].status = 404
           /\ req'[s].detail = "ClusterNotFound"
           /\ req'[s].made = {}
           /\ req'[s].client = NoClient
           /\ req'[s].calls = {"lookup"}
           /\ store' = store
           /\ accepted' = accepted]_vars

\* C6: a drop_and_import for an unregistered cluster was rejected while the
\* default collection held a document
C6_Witness ==
    \E s \in Slots :
        /\ req[s].op = "drop_and_import"
        /\ req[s].pc = "done"
        /\ req[s].status = 404
        /\ req[s].detail = "ClusterNotFound"
        /\ EntriesNamed(Registry, req[s].cluster) = {}
        /\ store[<<MONGO_URI, "test", "items">>] # <<>>

\* C7: a handler whose selector is a raw connection URI gets a new connection to
\* that URI without a registry lookup, and is not rejected as an unknown cluster.
C7_RawUriBypassesRegistry ==
    \A s \in Slots :
        LET r == req[s] IN
        (r.op \in Resolving /\ r.cluster \in Uris /\ r.pc \notin {"idle", "lookup"})
        => /\ r.client = AsyncIOMotorClient(r.cluster)
           /\ "lookup" \notin r.calls
           /\ r.status # 404 \/ r.detail # "ClusterNotFound"

\* C8: the document create_item returns has the input's fields with the input's
\* values plus one field "id" holding a string, and no "_id" key.
C8_CreateReturnsInputPlusId ==
    \A s \in Slots :
        LET r == req[s] IN
        (r.op = "create_item" /\ r.pc = "done" /\ r.status = 200)
        => /\ Len(r.body) = 1
           /\ DOMAIN r.body[1] = (DOMAIN r.item \ {"_id"}) \cup {"id"}
           /\ \A k \in DOMAIN r.item \ {"_id"} : r.body[1][k] = r.item[k]
           /\ r.body[1]["id"].t = "str"

\* C9: update_item with an empty payload (and a well-formed item_id) issues no
\* backend call and ends with 400.
C9_EmptyUpdateRejected ==
    \A s \in Slots :
        LET r == req[s] IN
        (r.op = "update_item" /\ DOMAIN r.item = {} /\ ValidObjectId(r.item_id))
        => /\ r.calls = {}
           /\ r.pc = "done" => r.status = 400

\* C10: insert_many_items with an empty list ends at once with 400 "No data to
\* insert"; it issues no backend call and no collection changes.
C10_EmptyBatchRejected ==
    [][\A s \in Slots :
        (/\ req[s].pc = "idle"
         /\ req'[s].op = "insert_many_items"
         /\ req'[s].items = <<>>)
        => /\ req'[s].pc = "done"
           /\ req'[s].status = 400
           /\ req'[s].detail = "No data to insert"
           /\ req'[s].calls = {}
           /\ store' = store
           /\ accepted' = accepted]_vars

\* C10: an empty batch was rejected while its target collection and the registry
\* held documents
C10_Witness ==
    \E s \in Slots :
        /\ req[s].op = "insert_many_items"
        /\ req[s].items = <<>>
        /\ req[s].pc = "done"
        /\ req[s].status = 400
        /\ req[s].cluster = ""
        /\ store[<<MONGO_URI, req[s].db, req[s].collection>>] # <<>>
        /\ Registry # <<>>

\* C11: an insert_many_items call whose insert_many step stored its N >= 1
\* documents returns exactly N documents with pairwise distinct string identifiers,
\* whatever other requests ran between that step and the re-read.
C11_InsertManyReturnsAll ==
    \A s \in Slots :
        LET r == req[s] IN
        (r.op = "insert_many_items" /\ r.pc = "done" /\ r.ids # <<>>)
        => /\ r.status = 200
           /\ Len(r.body) = Len(r.items)
           /\ \A i \in 1..Len(r.body) : r.body[i]["id"].t = "str"
           /\ \A i, j \in 1..Len(r.body) : i # j => r.body[i]["id"] # r.body[j]["id"]

\* C11: a bulk insert has returned fewer documents than it stored
C11_ReturnedFewer ==
    \E s \in Slots :
        /\ req[s].op = "insert_many_items"
        /\ req[s].pc = "done"
        /\ req[s].status = 200
        /\ Len(req[s].body) < Len(req[s].ids)

\* a link that has neither "csv" nor "xls" in it
Unsupported(link) ==
    ~Contains(link, <<"c", "s", "v">>) /\ ~Contains(link, <<"x", "l", "s">>)

\* C12: the step of drop_and_import that follows the resolver, taken with a link
\* of neither pattern, ends the call with 400 "Unsupported file type" and leaves
\* every collection as it was.
C12_UnsupportedLinkKeepsCollection ==
    [][\A s \in Slots :
        (/\ req[s].op = "drop_and_import"
         /\ req[s].pc = "drop"
         /\ req'[s] # req[s]
         /\ Unsupported(req[s].link))
        => /\ req'[s].pc = "done"
           /\ req'[s].status = 400
           /\ req'[s].detail = "Failed to load file: Unsupported file type"
           /\ store' = store]_vars

\* C12: a call with an unsupported link has been rejected after it issued the drop
C12_RejectedAfterDrop ==
    \E s \in Slots :
        /\ req[s].op = "drop_and_import"
        /\ req[s].pc = "done"
        /\ Unsupported(req[s].link)
        /\ req[s].status = 400
        /\ "drop" \in req[s].calls
        /\ accepted # {}
        /\ Registry = <<>>

\* C13: a drop_and_import whose table was read and has zero rows has ended with
\* 400 "No data to insert", and (requests run one after the other) its target
\* collection is empty.
C13_EmptyImportLeavesEmpty ==
    \A s \in Slots :
        LET r == req[s] IN
        (r.op = "drop_and_import" /\ r.loaded /\ r.items = <<>>)
        => /\ r.pc = "done"
           /\ r.status = 400
           /\ r.detail = "No data to insert"
           /\ store[col(r)] = <<>>

\* C13: an import of zero rows was rejected on the registry's collection after a
\* registration had been stored there
C13_Witness ==
    \E s \in Slots :
        /\ req[s].op = "drop_and_import"
        /\ req[s].pc = "done"
        /\ req[s].loaded
        /\ req[s].items = <<>>
        /\ req[s].status = 400
        /\ col(req[s]) = cluster_lookup_collection
        /\ accepted # {}
        /\ Registry = <<>>

\* C14: a drop_and_import that ended with 200 (requests run one after the other)
\* loaded R >= 1 rows; its collection holds exactly those R rows, in order, each
\* under the identifier the insert reported; inserted_count (the number of
\* reported identifiers) is R; the sample has min(3, R) documents, each the
\* normalized form of a stored row.
C14_ImportReplacesCollection ==
    \A s \in Slots :
        LET r == req[s]
            docs == store[col(r)]
            R == Len(r.items)
        IN  (r.op = "drop_and_import" /\ r.pc = "done" /\ r.status = 200)
            => /\ R >= 1
               /\ Len(docs) = R
               /\ Len(r.ids) = R
               /\ \A i \in 1..R :
                     /\ docs[i]["_id"] = r.ids[i]
                     /\ DOMAIN docs[i] = DOMAIN r.items[i] \cup {"_id"}
                     /\ \A k \in DOMAIN r.items[i] : docs[i][k] = r.items[i][k]
               /\ Len(r.body) = Min(3, R)
               /\ \A j \in 1..Len(r.body) :
                     \E i \in 1..R : r.body[j] = serialize(docs[i])

\* C14: an import of more than three rows succeeded on a registered cluster after
\* a document had been created there
C14_Witness ==
    \E s \in Slots :
        /\ req[s].op = "drop_and_import"
        /\ req[s].pc = "done"
        /\ req[s].status = 200
        /\ Len(req[s].items) > 3
        /\ req[s].cluster = "west"
        /\ nextOid > 2

HoldsPatch(d, update) ==
    \A k \in DOMAIN update : k \in DOMAIN d /\ d[k] = update[k]

C16_MergePatch ==
    [][\A s \in Slots :
        LET r == req[s]
            q == req'[s]
            h == col(r)
            docs == store[h]
            i == IndexOfId(docs, ObjectId(r.item_id))
        IN  (r.op = "update_item" /\ q # r)
            => IF r.pc = "update_one" /\ q.pc = "find_updated"
               THEN /\ i # 0
                    /\ \A g \in Handles \ {h} : store'[g] = store[g]
                    /\ Len(store'[h]) = Len(docs)
                    /\ \A j \in 1..Len(docs) : j # i => store'[h][j] = docs[j]
                    /\ store'[h][i]["_id"] = docs[i]["_id"]
                    /\ DOMAIN store'[h][i] = DOMAIN docs[i] \cup DOMAIN r.item
                    /\ \A k \in DOMAIN r.item : store'[h][i][k] = r.item[k]
                    /\ \A k \in DOMAIN docs[i] \ DOMAIN r.item : store'[h][i][k] = docs[i][k]
               ELSE store' = store]_vars

\* C16: an update succeeded on a document that has a field the patch does not
\* name, in a collection that holds another document as well
C16_Witness ==
    \E s \in Slots :
        LET r == req[s]
            docs == store[col(r)]
            i == IndexOfId(docs, ObjectId(r.item_id))
        IN  /\ r.op = "update_item"
            /\ r.pc = "done"
            /\ r.status = 200
            /\ Len(docs) >= 2
            /\ i # 0
            /\ DOMAIN docs[i] \ (DOMAIN r.item \cup {"_id"}) # {}

\* some document is stored under the identifier whose text (the "id" the API
\* returns for it) is given
HasIdText(docs, text) == \E i \in 1..Len(docs) : str(docs[i]["_id"]) = StrV(text)

\* C17: the step that ends a delete_item on a resolved cluster ends it with 404 and
\* no change when no document of the collection has the given identifier;
\* otherwise it ends it with the confirmation and removes that one document,
\* every other document and collection unchanged.
C17_DeleteByIdentifier ==
    [][\A s \in Slots :
        LET r == req[s]
            q == req'[s]
            h == col(q)
            docs == store[h]
        IN  (q.op = "delete_item" /\ q.pc = "done" /\ r.pc # "done" /\ q.client # NoClient)
            => IF ~HasIdText(docs, q.item_id)
               THEN q.status = 404 /\ store' = store
               ELSE /\ q.status = 200
                    /\ q.detail = "deleted"
                    /\ \A g \in Handles \ {h} : store'[g] = store[g]
                    /\ Len(store'[h]) = Len(docs) - 1
                    /\ ~HasIdText(store'[h], q.item_id)
                    /\ \A j \in 1..Len(docs) :
                          str(docs[j]["_id"]) # StrV(q.item_id)
                          => \E m \in 1..Len(store'[h]) : store'[h][m] = docs[j]]_vars

\* C17: a delete_item ended with 500 and the document stored under its identifier
\* is still there
C17_StoredButNotDeleted ==
    \E s \in Slots :
        /\ req[s].op = "delete_item"
        /\ req[s].pc = "done"
        /\ req[s].status = 500
        /\ HasIdText(store[col(req[s])], req[s].item_id)

\* the request runs on a cluster name that register_cluster accepted, through a
\* client for the URI registered with it
OnRegistered(r) ==
    /\ ~IsDefault(r.cluster)
    /\ r.client # NoClient
    /\ <<r.cluster, r.client.uri>> \in accepted

\* C18: on a registered cluster, (a) create_item into an empty collection stores
\* one document with the input's fields; (b) get_items on a collection of at most
\* one document returns it with every field it was given and a string "id" that
\* is the text of its identifier, and the empty list for the empty collection;
\* (c) delete_item with that identifier ends with 200 and empties the collection.
C18_RoundTrip ==
    [][\A s \in Slots :
        LET r == req[s]
            q == req'[s]
            h == col(q)
            docs == store[h]
        IN  (OnRegistered(q) /\ q # r)
            => /\ (r.pc = "insert_one" /\ docs = <<>>)
                  => /\ q.pc = "find_new"
                     /\ Len(store'[h]) = 1
                     /\ \A k \in DOMAIN r.item : store'[h][1][k] = r.item[k]
               /\ (r.pc = "find_all" /\ Len(docs) <= 1)
                  => /\ q.status = 200
                     /\ Len(q.body) = Len(docs)
                     /\ \A i \in 1..Len(docs) :
                           /\ DOMAIN q.body[i] = (DOMAIN docs[i] \ {"_id"}) \cup {"id"}
                           /\ q.body[i]["id"] = str(docs[i]["_id"])
                           /\ \A k \in DOMAIN docs[i] \ {"_id"} : q.body[i][k] = docs[i][k]
               /\ (/\ q.op = "delete_item" /\ q.pc = "done" /\ r.pc # "done"
                   /\ Len(docs) = 1 /\ HasIdText(docs, q.item_id))
                  => (q.status = 200 /\ store'[h] = <<>>)]_vars

\* C18: get_items on a registered cluster returned the one document of the
\* collection with another value under "id" than the one it was created with
C18_FieldLostOnRoundTrip ==
    \E s \in Slots :
        LET r == req[s]
            docs == store[col(r)]
        IN  /\ r.op = "get_items"
            /\ r.pc = "done"
            /\ r.status = 200
            /\ OnRegistered(r)
            /\ Len(docs) = 1
            /\ Len(r.body) = 1
            /\ "id" \in DOMAIN docs[1]
            /\ r.body[1]["id"] # docs[1]["id"]

\* C19: a create_item whose insert_one succeeded (it holds the inserted
\* identifier) and that has ended, ended with 200 and the inserted document:
\* the input's fields and the text of the inserted identifier under "id".
C19_CreateSurvivesInterleaving ==
    \A s \in Slots :
        LET r == req[s] IN
        (r.op = "create_item" /\ r.pc = "done" /\ r.ids # <<>>)
        => /\ r.status = 200
           /\ Len(r.body) = 1
           /\ r.body[1]["id"] = str(r.ids[1])
           /\ \A k \in DOMAIN r.item \ {"_id", "id"} : r.body[1][k] = r.item[k]

\* C19: a create_item ended with 500 on its re-read after its insert_one had
\* succeeded, and the document is not in the collection
C19_RereadFoundNothing ==
    \E s \in Slots :
        /\ req[s].op = "create_item"
        /\ req[s].pc = "done"
        /\ req[s].ids # <<>>
        /\ req[s].status = 500
        /\ req[s].detail = "TypeError"
        /\ ~HasId(store[col(req[s])], req[s].ids[1])

\* C20: no step of a drop_and_import issues the drop or changes a collection
\* unless the resolver has returned a client, through a registry lookup when the
\* selector is a cluster name; and the lookup step of a drop_and_import whose
\* selector names no registry entry ends the call with 404 cluster-not-found,
\* no drop issued, every collection and the registry unchanged.
C20_ResolveBeforeDrop ==
    [][\A s \in Slots :
        LET r == req[s]
            q == req'[s]
        IN  (q.op = "drop_and_import" /\ q # r)
            => /\ (store' # store \/ "drop" \in q.calls)
                  => /\ r.client # NoClient
                     /\ r.pc \in {"drop", "import_insert", "sample"}
                     /\ ~IsDefault(r.cluster) => "lookup" \in r.calls
               /\ (r.pc = "lookup" /\ EntriesNamed(Registry, r.cluster) = {})
                  => /\ q.pc = "done"
                     /\ q.status = 404
                     /\ q.detail = "ClusterNotFound"
                     /\ "drop" \notin q.calls
                     /\ store' = store]_vars

\* C20: a drop_and_import whose selector is the URI of a registered backend, not
\* a registered name, was rejected and the documents on that backend are still
\* there
C20_Witness ==
    \E s \in Slots :
        /\ req[s].op = "drop_and_import"
        /\ req[s].pc = "done"
        /\ req[s].status = 404
        /\ req[s].cluster = "uriW"
        /\ "drop" \notin req[s].calls
        /\ store[<<"uriW", "test", "items">>] # <<>>

====
